---- MODULE Spec2Model ----
(***************************************************************************)
(* Charge-mix optimisation (src/mech.py).  One run of main() is one        *)
(* request: the tables, the furnace size, the per-material sliders and the *)
(* element selection are read, the linear program is assembled, linprog is *)
(* called and the result is reported.  Streamlit reruns main() from the    *)
(* top on every interaction, which is the Rerun step.                      *)
(*                                                                         *)
(* Numbers are exact: the tables hold integers (percent points, cost       *)
(* units, tons) and a quotient the code computes with "/" is kept as the   *)
(* fraction [num, den].  Masses are whole tons, so the mass vectors the    *)
(* solver can return are the points of a finite grid.                      *)
(***************************************************************************)
EXTENDS Integers, Sequences, FiniteSets

VARIABLES pc, composition_data, target_data, furnace_size, bounds,
          selected_elements, lp, res, report, err, solver_calls

vars == <<pc, composition_data, target_data, furnace_size, bounds,
          selected_elements, lp, res, report, err, solver_calls>>

(* ------------------------------ bounds --------------------------------- *)

\* Largest furnace size (whole tons) a request enters.
MaxFurnace == 2

\* Largest number of rows of the raw-material table.
MaxMaterials == 2

(* ------------------- 1) hardness / tensile coefficients ---------------- *)

HARDNESS_CONSTANT == 50

HARDNESS_COEFFS ==
    [C |-> 40, Si |-> -15, Mn |-> 10, S |-> -5, P |-> -5,
     Cu |-> 4, Ni |-> 3, Mo |-> 2, Cr |-> 3]

TENSILE_CONSTANT == 300

TENSILE_COEFFS ==
    [C |-> 20, Si |-> -10, Mn |-> 25, S |-> -10, P |-> -2,
     Cu |-> 5, Ni |-> 8, Mo |-> 5, Cr |-> 5]

(* ------------------------------ helpers -------------------------------- *)

Range(s) == {s[i] : i \in DOMAIN s}

RECURSIVE SeqSum(_)
SeqSum(s) == IF s = <<>> THEN 0 ELSE Head(s) + SeqSum(Tail(s))

\* np.dot of two vectors of the same length
Dot(a, b) == SeqSum([i \in DOMAIN a |-> a[i] * b[i]])

\* unary minus on an array
Neg(a) == [i \in DOMAIN a |-> -a[i]]

RECURSIVE SumOver(_, _)
SumOver(S, f) ==
    IF S = {} THEN 0
    ELSE LET e == CHOOSE e \in S : TRUE IN f[e] + SumOver(S \ {e}, f)

\* a "/" of the code, kept exact
Frac(n, d) == [num |-> n, den |-> d]

(* ------------------------- the editable tables ------------------------- *)

\* The element columns of the raw-material table the model tracks
\* (composition_data.columns[2:]).
all_elements == <<"C", "Si">>

\* Rows the user can leave in the raw-material table: rows of the sample
\* table, edited to whole numbers.
MaterialRows ==
    { [Material |-> "HMS",        Cost |-> 34, C |-> 3, Si |-> 1],
      [Material |-> "Pig Iron",   Cost |-> 42, C |-> 4, Si |-> 1],
      [Material |-> "Carburiser", Cost |-> 80, C |-> 5, Si |-> 0] }

\* The raw-material tables a request can start from: 1..MaxMaterials rows,
\* the same row twice included.
CompositionTables ==
    UNION { [1..n -> MaterialRows] : n \in 1..MaxMaterials }

TRow(p, lo, hi) == [Property |-> p, Min |-> lo, Max |-> hi]

\* What the user can leave in the target table for one property: no row, or
\* one of these rows (a row with Min > Max is not refused by the editor).
TargetChoices(p) ==
    CASE p = "C"                -> { <<>>, <<TRow(p, 3, 4)>>, <<TRow(p, 4, 3)>> }
      [] p = "Si"               -> { <<>>, <<TRow(p, 1, 2)>> }
      [] p = "Hardness"         -> { <<>>, <<TRow(p, 180, 220)>>, <<TRow(p, 50, 250)>> }
      [] p = "Tensile Strength" -> { <<>>, <<TRow(p, 300, 400)>> }

TargetTables ==
    { a \o b \o h \o t : a \in TargetChoices("C"), b \in TargetChoices("Si"),
                         h \in TargetChoices("Hardness"),
                         t \in TargetChoices("Tensile Strength") }

\* st.multiselect: the chosen options, in the order they were chosen.
Selections ==
    { s \in UNION { [1..n -> Range(all_elements)] : n \in 0..Len(all_elements) } :
        \A i, j \in DOMAIN s : i # j => s[i] # s[j] }

\* st.sidebar.slider(label, 0.0, furnace_size, default): a value in
\* [0, furnace_size].  The requests modelled leave each slider at one end of
\* its range; the two sliders of a material are set independently.
SliderValues(size) == {0, size}

(* ------------------------------- state --------------------------------- *)

NoLP == [hardness_array |-> <<>>, tensile_array |-> <<>>, A_ub |-> <<>>,
         b_ub |-> <<>>, A_eq |-> <<>>, b_eq |-> <<>>, c |-> <<>>]

NoRes == [success |-> FALSE, status |-> -1, x |-> <<>>, message |-> ""]

NoReport == [shown |-> {}, notice |-> "", solution_df |-> <<>>,
             final_composition |-> <<>>, avg_composition |-> <<>>,
             avg_hardness |-> Frac(0, 1), avg_tensile |-> Frac(0, 1),
             message |-> ""]

Init ==
    /\ pc = "tables"
    /\ composition_data = <<>>
    /\ target_data = <<>>
    /\ furnace_size = 0
    /\ bounds = <<>>
    /\ selected_elements = <<>>
    /\ lp = NoLP
    /\ res = NoRes
    /\ report = NoReport
    /\ err = ""
    /\ solver_calls = 0

(* --------------------- A) - D) input collection ------------------------ *)

\* A) the two st.data_editor tables
EditTables ==
    /\ pc = "tables"
    /\ composition_data' \in CompositionTables
    /\ target_data' \in TargetTables
    /\ pc' = "furnace"
    /\ UNCHANGED <<furnace_size, bounds, selected_elements, lp, res, report,
                   err, solver_calls>>

\* B) st.number_input(min_value=0.1): the widget returns no value below its
\* minimum, so the furnace size is positive.
EnterFurnaceSize ==
    /\ pc = "furnace"
    /\ furnace_size' \in 1..MaxFurnace
    /\ pc' = "bounds"
    /\ UNCHANGED <<composition_data, target_data, bounds, selected_elements,
                   lp, res, report, err, solver_calls>>

\* Two sliders built from the same material name have the same label and
\* arguments; Streamlit refuses the second (DuplicateWidgetID).
DuplicateSliders(data) ==
    \E i, j \in DOMAIN data : i # j /\ data[i].Material = data[j].Material

\* C) one (min, max) pair of sliders per material row
SetBounds ==
    /\ pc = "bounds"
    /\ IF DuplicateSliders(composition_data)
       THEN /\ pc' = "error"
            /\ err' = "DuplicateWidgetID"
            /\ UNCHANGED bounds
       ELSE /\ bounds' \in [DOMAIN composition_data ->
                             SliderValues(furnace_size) \X SliderValues(furnace_size)]
            /\ pc' = "select"
            /\ UNCHANGED err
    /\ UNCHANGED <<composition_data, target_data, furnace_size,
                   selected_elements, lp, res, report, solver_calls>>

\* composition_data[["Material", "Cost"] + selected_elements]
FilterColumns(data, selected) ==
    [i \in DOMAIN data |->
        [k \in {"Material", "Cost"} \cup Range(selected) |-> data[i][k]]]

\* target_data[target_data["Property"].isin(selected + ["Hardness", "Tensile Strength"])]
KeepRow(r, selected) ==
    r.Property \in Range(selected) \cup {"Hardness", "Tensile Strength"}

FilterTargets(target, selected) ==
    SelectSeq(target, LAMBDA r : KeepRow(r, selected))

\* D) st.multiselect, then both tables are filtered by the selection
SelectElements ==
    /\ pc = "select"
    /\ \E s \in Selections :
         /\ selected_elements' = s
         /\ composition_data' = FilterColumns(composition_data, s)
         /\ target_data' = FilterTargets(target_data, s)
    /\ pc' = "build"
    /\ UNCHANGED <<furnace_size, bounds, lp, res, report, err, solver_calls>>

(* ------------- E) hardness and tensile arrays (no constant) ------------ *)

\* Sum of coeff * row[elem] over the coefficient entries whose element is a
\* column of the (filtered) row.
hardness_contrib_per_ton(row) ==
    LET S == DOMAIN HARDNESS_COEFFS \cap DOMAIN row
    IN  SumOver(S, [e \in S |-> HARDNESS_COEFFS[e] * row[e]])

tensile_contrib_per_ton(row) ==
    LET S == DOMAIN TENSILE_COEFFS \cap DOMAIN row
    IN  SumOver(S, [e \in S |-> TENSILE_COEFFS[e] * row[e]])

hardness_array(data) == [i \in DOMAIN data |-> hardness_contrib_per_ton(data[i])]

tensile_array(data) == [i \in DOMAIN data |-> tensile_contrib_per_ton(data[i])]

(* ------------------ F) hardness / tensile min and max ------------------ *)

\* target_data[target_data["Property"] == prop]
RowsOf(target, prop) == SelectSeq(target, LAMBDA r : r.Property = prop)

\* .values[0] of an empty selection raises IndexError
MissingDerivedTarget(target) ==
    RowsOf(target, "Hardness") = <<>> \/ RowsOf(target, "Tensile Strength") = <<>>

(* ---------------- G) derived-property rows (average-based) ------------- *)

\* lo <= constant + sum(arr[i]*x[i]) / size <= hi as two rows of A_ub x <= b_ub
DerivedRows(arr, size, lo, hi, constant) ==
    [A |-> << Neg(arr), arr >>,
     b |-> << -size * (lo - constant), size * (hi - constant) >>]

(* ------------- H) composition rows of the selected elements ------------ *)

\* composition_data[prop].values
Column(data, prop) == [i \in DOMAIN data |-> data[i][prop]]

\* Mutant of CompositionRows: the right-hand sides are not scaled by the
\* furnace size.
CompositionRows_unscaled(prop_array, size, min_val, max_val) ==
    [A |-> << Neg(prop_array), prop_array >>,
     b |-> << -min_val, max_val >>]

\* min_val * size <= sum(prop_array[i]*x[i]) <= max_val * size
CompositionRows(prop_array, size, min_val, max_val) ==
    [A |-> << Neg(prop_array), prop_array >>,
     b |-> << -size * min_val, size * max_val >>]

\* the loop over selected_elements, appending in selection order
RECURSIVE ElementRows(_, _, _, _)
ElementRows(data, target, selected, size) ==
    IF selected = <<>> THEN [A |-> <<>>, b |-> <<>>]
    ELSE LET prop == Head(selected)
             row_target == RowsOf(target, prop)
             rest == ElementRows(data, target, Tail(selected), size)
         IN  IF row_target # <<>>
             THEN LET rows == CompositionRows(Column(data, prop), size,
                                              row_target[1].Min, row_target[1].Max)
                  IN  [A |-> rows.A \o rest.A, b |-> rows.b \o rest.b]
             ELSE rest

\* Mutant of AppendOrder: section H runs before section G.
AppendOrder_elementsFirst(hardness, tensile, elements) ==
    [A |-> elements.A \o hardness.A \o tensile.A,
     b |-> elements.b \o hardness.b \o tensile.b]

\* The order in which sections G and H append to A_ub and b_ub.
AppendOrder(hardness, tensile, elements) ==
    [A |-> hardness.A \o tensile.A \o elements.A,
     b |-> hardness.b \o tensile.b \o elements.b]

(* ------------------- I) mass balance, J) objective --------------------- *)

\* A_eq = [[1]*len(composition_data)], b_eq = [furnace_size]
MassBalance(data, size) ==
    [A |-> << [i \in DOMAIN data |-> 1] >>, b |-> << size >>]

\* c = the Cost column (every cost cell of the modelled tables is a number)
Objective(data) == [i \in DOMAIN data |-> data[i].Cost]

\* Sections E to J for inputs that have both derived-property rows.
BuildLP(data, target, selected, size) ==
    LET h  == hardness_array(data)
        t  == tensile_array(data)
        hr == RowsOf(target, "Hardness")[1]
        tr == RowsOf(target, "Tensile Strength")[1]
        ub == AppendOrder(DerivedRows(h, size, hr.Min, hr.Max, HARDNESS_CONSTANT),
                          DerivedRows(t, size, tr.Min, tr.Max, TENSILE_CONSTANT),
                          ElementRows(data, target, selected, size))
        eq == MassBalance(data, size)
    IN  [hardness_array |-> h, tensile_array |-> t, A_ub |-> ub.A, b_ub |-> ub.b,
         A_eq |-> eq.A, b_eq |-> eq.b, c |-> Objective(data)]

Build ==
    /\ pc = "build"
    /\ IF MissingDerivedTarget(target_data)
       THEN /\ pc' = "error"
            /\ err' = "IndexError"
            /\ UNCHANGED lp
       ELSE /\ lp' = BuildLP(composition_data, target_data, selected_elements,
                             furnace_size)
            /\ pc' = "solve"
            /\ UNCHANGED err
    /\ UNCHANGED <<composition_data, target_data, furnace_size, bounds,
                   selected_elements, res, report, solver_calls>>

(* ---------------------------- K) linprog ------------------------------- *)

\* The mass vectors of n materials on the whole-ton grid.  Every slider value
\* is at most MaxFurnace, so no point inside the bounds lies off the grid.
Grid(n) == [1..n -> 0..MaxFurnace]

\* x satisfies the equality row, every inequality row and every bound
Satisfies(x, P, bnds) ==
    /\ \A k \in DOMAIN P.A_eq : Dot(P.A_eq[k], x) = P.b_eq[k]
    /\ \A k \in DOMAIN P.A_ub : Dot(P.A_ub[k], x) <= P.b_ub[k]
    /\ \A i \in DOMAIN x : bnds[i][1] <= x[i] /\ x[i] <= bnds[i][2]

FeasibleSet(P, bnds) == { x \in Grid(Len(P.c)) : Satisfies(x, P, bnds) }

\* scipy's OptimizeResult.status: 0 optimal, 1 iteration limit, 2 infeasible,
\* 3 unbounded, 4 numerical difficulties.
SolverMessage(status) ==
    CASE status = 0 -> "Optimization terminated successfully."
      [] status = 1 -> "Iteration limit reached."
      [] status = 2 -> "The problem is infeasible."
      [] status = 3 -> "The problem is unbounded."
      [] OTHER      -> "Numerical difficulties encountered."

SolverResult(status, x) ==
    [success |-> status = 0, status |-> status, x |-> x,
     message |-> SolverMessage(status)]

\* A failure of the solver itself, which no input rules out.
SolverFaults == { 1, 4 }

\* What linprog can return: a feasible point of least cost (any of them on a
\* tie), infeasible when there is none, or a failure of its own.  Every
\* variable is boxed by its sliders, so the problem is never unbounded.
linprog(P, bnds) ==
    LET F == FeasibleSet(P, bnds)
        best == { x \in F : \A y \in F : Dot(P.c, x) <= Dot(P.c, y) }
    IN  (IF F # {} THEN { SolverResult(0, x) : x \in best }
                   ELSE { SolverResult(2, <<>>) })
        \cup { SolverResult(s, <<>>) : s \in SolverFaults }

Solve ==
    /\ pc = "solve"
    /\ res' \in linprog(lp, bounds)
    /\ solver_calls' = solver_calls + 1
    /\ pc' = "report"
    /\ UNCHANGED <<composition_data, target_data, furnace_size, bounds,
                   selected_elements, lp, report, err>>

(* ------------------------- L) report solution -------------------------- *)

\* the "Optimized Charge Mix" table
solution_df(data, x) ==
    [i \in DOMAIN data |->
        [Material |-> data[i].Material, tons |-> x[i], kg |-> x[i] * 1000]]

\* Mutant of final_composition: the dot product is converted from percent
\* to a fraction.
final_composition_over100(data, selected, x) ==
    [elem \in Range(selected) |-> Dot(x, Column(data, elem)) \div 100]

\* final_composition[elem] = np.dot(optimized_proportions, composition_data[elem].values)
final_composition(data, selected, x) ==
    [elem \in Range(selected) |-> Dot(x, Column(data, elem))]

\* avg_composition = {k: v/furnace_size for k, v in final_composition.items()}
avg_composition(final, size) == [k \in DOMAIN final |-> Frac(final[k], size)]

\* Mutant of avg_property: the constant is left out when the average is
\* reported.
avg_property_noConstant(constant, arr, x, size) == Frac(Dot(arr, x), size)

\* constant + np.dot(arr, optimized_proportions) / furnace_size
avg_property(constant, arr, x, size) == Frac(constant * size + Dot(arr, x), size)

SuccessSections ==
    {"success", "solution_df", "final_composition", "avg_composition",
     "avg_hardness", "avg_tensile"}

SuccessReport(data, selected, size, P, r) ==
    LET final == final_composition(data, selected, r.x)
    IN  [shown |-> SuccessSections,
         notice |-> "Optimization Succeeded!",
         solution_df |-> solution_df(data, r.x),
         final_composition |-> final,
         avg_composition |-> avg_composition(final, size),
         avg_hardness |-> avg_property(HARDNESS_CONSTANT, P.hardness_array, r.x, size),
         avg_tensile |-> avg_property(TENSILE_CONSTANT, P.tensile_array, r.x, size),
         message |-> ""]

\* st.error(...): the same text whatever made the solve fail
FailureNotice(r) ==
    "Optimization failed. Try relaxing constraints or checking data consistency."

FailureSections == {"error", "message"}

\* Mutant of FailureReport: the mass table is written on failure too.
FailureReport_withTable(r) ==
    [NoReport EXCEPT !.shown = FailureSections \cup {"solution_df"},
                     !.notice = FailureNotice(r),
                     !.message = r.message]

FailureReport(r) ==
    [NoReport EXCEPT !.shown = FailureSections,
                     !.notice = FailureNotice(r),
                     !.message = r.message]

\* Mutant of AfterReport: a failed solve is attempted again.
AfterReport_retry(r) == IF r.success THEN "done" ELSE "solve"

\* Where main() goes once the branch on res.success has written its output:
\* it returns.
AfterReport(r) == "done"

Report ==
    /\ pc = "report"
    /\ report' = IF res.success
                 THEN SuccessReport(composition_data, selected_elements,
                                    furnace_size, lp, res)
                 ELSE FailureReport(res)
    /\ pc' = AfterReport(res)
    /\ UNCHANGED <<composition_data, target_data, furnace_size, bounds,
                   selected_elements, lp, res, err, solver_calls>>

\* The next interaction: Streamlit runs main() again from the top; nothing of
\* the finished (or aborted) run is kept.
Rerun ==
    /\ pc \in {"done", "error"}
    /\ pc' = "tables"
    /\ composition_data' = <<>>
    /\ target_data' = <<>>
    /\ furnace_size' = 0
    /\ bounds' = <<>>
    /\ selected_elements' = <<>>
    /\ lp' = NoLP
    /\ res' = NoRes
    /\ report' = NoReport
    /\ err' = ""
    /\ solver_calls' = 0

Next ==
    \/ EditTables
    \/ EnterFurnaceSize
    \/ SetBounds
    \/ SelectElements
    \/ Build
    \/ Solve
    \/ Report
    \/ Rerun

Spec == Init /\ [][Next]_vars

(* ============================== claims ================================= *)

\* The linear program of the request has been assembled.
LPAssembled == pc \in {"solve", "report", "done"}

\* The request was reported as solved.
Succeeded == pc = "done" /\ res.success

\* The selected elements that have a row in the target table, in selection
\* order.
Targeted == SelectSeq(selected_elements, LAMBDA e : RowsOf(target_data, e) # <<>>)

\* The first target row of a property that has one.
TargetOf(prop) == RowsOf(target_data, prop)[1]

\* comparisons of a fraction with positive denominator against an integer
FracGeq(q, k) == q.num >= k * q.den
FracLeq(q, k) == q.num <= k * q.den

InRange(q, row) == FracGeq(q, row.Min) /\ FracLeq(q, row.Max)

\* What section L reports for the mass vector x lies inside the ranges.
ReportedInsideRanges(x) ==
    LET rep == SuccessReport(composition_data, selected_elements, furnace_size,
                             lp, SolverResult(0, x))
    IN  /\ SeqSum(x) = furnace_size
        /\ \A i \in DOMAIN x : bounds[i][1] <= x[i] /\ x[i] <= bounds[i][2]
        /\ \A e \in Range(Targeted) : InRange(rep.avg_composition[e], TargetOf(e))
        /\ InRange(rep.avg_hardness, TargetOf("Hardness"))
        /\ InRange(rep.avg_tensile, TargetOf("Tensile Strength"))

\* C1: every mass vector that satisfies the assembled program (equality row,
\* inequality rows, bounds) sums to furnace_size, lies inside its bounds and
\* is reported with every targeted element's average composition and the
\* average Hardness and Tensile Strength inside their [Min, Max]; so is the
\* report of every successful solve.
C1_ReportedValuesInsideRanges ==
    /\ LPAssembled =>
         \A x \in Grid(Len(composition_data)) :
            Satisfies(x, lp, bounds) => ReportedInsideRanges(x)
    /\ Succeeded =>
         /\ SeqSum([i \in DOMAIN report.solution_df |-> report.solution_df[i].tons])
              = furnace_size
         /\ \A e \in Range(Targeted) : InRange(report.avg_composition[e], TargetOf(e))
         /\ InRange(report.avg_hardness, TargetOf("Hardness"))
         /\ InRange(report.avg_tensile, TargetOf("Tensile Strength"))

\* A successful solve with a targeted element whose charge mixes two
\* materials.
C1_Witness ==
    /\ Succeeded /\ Targeted # <<>>
    /\ \E i \in DOMAIN res.x : 0 < res.x[i] /\ res.x[i] < furnace_size

\* Some two rows of A_ub x <= b_ub are the lower and the upper row of
\* element e, with coefficients col[i] / scale.
HasElementRows(e, scale) ==
    LET col == Column(composition_data, e)
    IN  \E k, m \in DOMAIN lp.A_ub :
          /\ k # m
          /\ \A i \in DOMAIN col : scale * lp.A_ub[k][i] = -col[i]
          /\ \A i \in DOMAIN col : scale * lp.A_ub[m][i] = col[i]
          /\ lp.b_ub[k] = -(TargetOf(e).Min * furnace_size)
          /\ lp.b_ub[m] = TargetOf(e).Max * furnace_size

\* Besides the four derived-property rows there are two rows per targeted
\* element.
TwoRowsPerElement ==
    /\ Len(lp.A_ub) = 4 + 2 * Len(Targeted)
    /\ Len(lp.b_ub) = Len(lp.A_ub)

\* C2 as claimed: the two rows of a targeted element have the element's
\* percentages divided by 100 as coefficients.
C2_Original_CoefficientsDividedBy100 ==
    LPAssembled => /\ TwoRowsPerElement
                   /\ \A e \in Range(Targeted) : HasElementRows(e, 100)

\* C2 amended: for every selected element with a target row exactly two rows
\* are emitted, enforcing Min * furnace_size <= sum of percentage[i][e] *
\* mass[i] <= Max * furnace_size: the coefficients are the percentages
\* themselves, the right-hand sides the bounds scaled by furnace_size.
C2_CoefficientsArePercentages ==
    LPAssembled => /\ TwoRowsPerElement
                   /\ \A e \in Range(Targeted) : HasElementRows(e, 1)

\* A program with a targeted element in a furnace of more than one ton.
C2_Witness ==
    /\ LPAssembled /\ Targeted # <<>> /\ furnace_size > 1
    /\ \E i \in DOMAIN composition_data : composition_data[i][Targeted[1]] > 0

\* sum over the materials of mass times the element's percentage
MassTimesPercent(e) ==
    SumOver(DOMAIN composition_data,
            [i \in DOMAIN composition_data |-> res.x[i] * composition_data[i][e]])

\* C3 as claimed: the absolute composition reported is the dot product
\* divided by 100.
C3_Original_AbsoluteIsDotOver100 ==
    Succeeded =>
        \A e \in Range(selected_elements) :
            100 * report.final_composition[e] = MassTimesPercent(e)

\* C3 amended: on a successful solve the absolute composition reported for
\* each selected element is the dot product of the solution masses with the
\* element's percentage column, not divided by 100, and the average reported
\* is that value over furnace_size.
C3_AbsoluteIsDotProduct ==
    Succeeded =>
        /\ DOMAIN report.final_composition = Range(selected_elements)
        /\ DOMAIN report.avg_composition = Range(selected_elements)
        /\ \A e \in Range(selected_elements) :
             /\ report.final_composition[e] = MassTimesPercent(e)
             /\ report.avg_composition[e] = Frac(MassTimesPercent(e), furnace_size)

\* A successful solve that reports a non-zero amount below 100.
C3_Witness ==
    Succeeded /\ \E e \in Range(selected_elements) :
                    report.final_composition[e] > 0 /\ report.final_composition[e] < 100

\* C4: with no element selected and neither a Hardness nor a Tensile Strength
\* row in the target table the request raises no error.
C4_EmptyProblemDoesNotRaise ==
    (/\ pc \in {"build", "solve", "report", "done", "error"}
     /\ err # "DuplicateWidgetID"
     /\ selected_elements = <<>>
     /\ RowsOf(target_data, "Hardness") = <<>>
     /\ RowsOf(target_data, "Tensile Strength") = <<>>)
    => pc # "error"

\* The request's input is valid: positive furnace size, Min <= Max in every
\* target row, no two materials of the same name.
ValidInput ==
    /\ furnace_size > 0
    /\ \A k \in DOMAIN target_data : target_data[k].Min <= target_data[k].Max
    /\ \A i, j \in DOMAIN composition_data :
          i # j => composition_data[i].Material # composition_data[j].Material

\* C5: the solver is never invoked on a request whose input is invalid.
C5_InvalidInputNeverSolved == solver_calls > 0 => ValidInput

\* C6 as claimed: a request whose exact problem is infeasible ends after a
\* second, relaxed, solve.
C6_Original_OneRelaxedAttempt ==
    (pc = "done" /\ res.status = 2) => solver_calls = 2

\* C6 amended: when the exact problem is infeasible no relaxed attempt is
\* made: the request ends in failure after its single solve.  The request is
\* terminal after the first solver result, so the solver is invoked at most
\* once per request, on the exact problem, and the pipeline never loops.
C6_SingleAttempt ==
    /\ solver_calls <= 1
    /\ pc \in {"report", "done"} =>
         /\ solver_calls = 1
         /\ lp = BuildLP(composition_data, target_data, selected_elements,
                         furnace_size)
    /\ (pc = "done" /\ res.status = 2) => "error" \in report.shown

\* An infeasible exact problem, reported.
C6_Witness == pc = "done" /\ res.status = 2 /\ FeasibleSet(lp, bounds) = {}

\* The category of a failed solve.
Category(status) == IF status = 2 THEN "Infeasible" ELSE "NumericalFailure"

\* The results a failed solve can carry.
FailedResults == { SolverResult(s, <<>>) : s \in {1, 2, 3, 4} }

\* C7: the notice of a failed solve states its category: it is not the notice
\* a failure of the other category gets.
C7_FailureCategoryStated ==
    (pc = "done" /\ ~res.success) =>
        \A other \in FailedResults :
            Category(other.status) # Category(res.status)
                => FailureNotice(other) # report.notice

\* C8: every bound handed to the solver has 0 <= min <= max <= furnace_size.
C8_BoundsOrdered ==
    solver_calls > 0 =>
        \A i \in DOMAIN bounds :
            /\ 0 <= bounds[i][1]
            /\ bounds[i][1] <= bounds[i][2]
            /\ bounds[i][2] <= furnace_size

\* The sections that carry numbers of a solution.
NumericSections ==
    {"solution_df", "final_composition", "avg_composition", "avg_hardness",
     "avg_tensile"}

\* C9: a solve that did not succeed outputs the failure notice and the
\* solver's message and nothing else; the mass table, the compositions and
\* the Hardness and Tensile Strength values are output only by a request
\* whose solve succeeded.
C9_NumbersOnlyOnSuccess ==
    /\ (pc = "done" /\ ~res.success) =>
          /\ report.shown = {"error", "message"}
          /\ report.message = res.message
          /\ report.solution_df = <<>>
          /\ report.final_composition = <<>>
          /\ report.avg_composition = <<>>
    /\ report.shown \cap NumericSections # {} =>
          pc = "done" /\ res.success /\ solver_calls = 1
    /\ Succeeded => NumericSections \subseteq report.shown

\* A failed solve, reported.
C9_Witness == pc = "done" /\ ~res.success /\ report.notice # ""

\* The rows of A_ub and b_ub from position k on are (A, b).
RowsAt(k, rows) ==
    /\ k + Len(rows.A) - 1 <= Len(lp.A_ub)
    /\ \A j \in DOMAIN rows.A :
         lp.A_ub[k + j - 1] = rows.A[j] /\ lp.b_ub[k + j - 1] = rows.b[j]

HardnessPair ==
    DerivedRows(lp.hardness_array, furnace_size, TargetOf("Hardness").Min,
                TargetOf("Hardness").Max, HARDNESS_CONSTANT)

TensilePair ==
    DerivedRows(lp.tensile_array, furnace_size, TargetOf("Tensile Strength").Min,
                TargetOf("Tensile Strength").Max, TENSILE_CONSTANT)

ElementPair(e) ==
    CompositionRows(Column(composition_data, e), furnace_size,
                    TargetOf(e).Min, TargetOf(e).Max)

\* C10 as claimed: the rows of the targeted elements come first, in selection
\* order, and the Hardness and Tensile Strength rows after all of them.
C10_Original_ElementsFirst ==
    LPAssembled =>
        /\ \A j \in DOMAIN Targeted : RowsAt(2 * j - 1, ElementPair(Targeted[j]))
        /\ RowsAt(2 * Len(Targeted) + 1, HardnessPair)
        /\ RowsAt(2 * Len(Targeted) + 3, TensilePair)

\* C10 amended: the rows appear in the order Hardness (lower, upper), Tensile
\* Strength (lower, upper) and only then the two rows (lower, upper) of each
\* selected element with a target range, in selection order; the order is
\* fixed by the inputs.
C10_DerivedRowsFirst ==
    LPAssembled =>
        /\ RowsAt(1, HardnessPair)
        /\ RowsAt(3, TensilePair)
        /\ \A j \in DOMAIN Targeted : RowsAt(3 + 2 * j, ElementPair(Targeted[j]))
        /\ Len(lp.A_ub) = 4 + 2 * Len(Targeted)

\* Both elements targeted, selected in the reverse of the column order.
C10_Witness ==
    LPAssembled /\ Targeted = <<"Si", "C">> /\ Len(lp.A_ub) = 8

====
